---- MODULE Spec2Model ----
(***************************************************************************)
(* A model of egor-tensin/vk_scripts:                                      *)
(*   - the live status tracker, track_status.py (loop_update_status and    *)
(*     the __main__ block that runs it), and                               *)
(*   - the batch run of online_streak_duration.py (process_database and    *)
(*     its CSV / JSON output writers).                                     *)
(* Spec        : the live tracker, the snapshot source answering in the    *)
(*               order of the requested user ids.                          *)
(* SpecAnyOrder: the live tracker, the snapshot source answering with any  *)
(*               users in any order.                                       *)
(* SpecBatch   : the batch run.                                            *)
(***************************************************************************)
EXTENDS Integers, Sequences, FiniteSets

\* ------------------------------------------------------------------ bounds
\* The largest number of user ids given on the command line.
MaxUsers == 2
\* The acquisitions (cycles) a run makes before the model stops it.
MaxCycles == 3
\* last_seen is a time in 1..MaxLastSeen, or NoLastSeen when the field is absent.
MaxLastSeen == 1
\* The -t/--timeout argument is one decimal digit 0..MaxTimeoutDigit, with or without a sign.
MaxTimeoutDigit == 1
\* The largest number of users in the recorded log of a batch run.
MaxBatchUsers == 2

\* DEFAULT_TIMEOUT=5
DEFAULT_TIMEOUT == 5

\* The last_seen of a User that has no such field.
NoLastSeen == 0

VARIABLES
    \* ---- live tracker (track_status.py)
    pc,             \* where the run is: "parse_args", "users_get", "print_status",
                    \* "sleep", "compare", "exited"
    mode,           \* "aligned" or "any": how the snapshot source answers
    user_ids,       \* args.user_ids
    timeout,        \* args.timeout
    users,          \* loop_update_status: users
    updated_users,  \* loop_update_status: updated_users
    i,              \* index of the running for loop (1-based)
    cycle,          \* acquisitions begun (calls of api.users_get)
    acquired,       \* acquisitions completed (returns of api.users_get)
    sleeps,         \* completed calls of time.sleep
    clock,          \* seconds slept in total
    log,            \* lines given to logging.info during the current cycle
    verdicts,       \* the pairs compared at line 76 during the current cycle, with the outcome
    raised,         \* the exception that left loop_update_status, or "none"
    exit_status,    \* the process's exit status, or -1 while it runs
    \* ---- batch run (online_streak_duration.py)
    bpc,            \* "idle", "group_by_user", "add", "exit_writer", "done"
    fmt,            \* args.output_format
    db_ok,          \* whether the reader can parse the whole log
    by_user,        \* the items of group_by_user's result, in order
    k,              \* index of process_database's for loop (1-based)
    fd,             \* what has been written to args.output, in order
    array,          \* OutputWriterJSON._array
    calls,          \* add_user_duration calls that returned
    braised,        \* the exception that left the batch run, or "none"
    bexit           \* the batch process's exit status, or -1 while it runs

liveVars == <<pc, mode, user_ids, timeout, users, updated_users, i, cycle, acquired,
              sleeps, clock, log, verdicts, raised, exit_status>>
batchVars == <<bpc, fmt, db_ok, by_user, k, fd, array, calls, braised, bexit>>
vars == <<liveVars, batchVars>>

\* ------------------------------------------------------------ vk/user.py
\* _parse_online_flag on the integer the service sends: bool(x).
parse_online_flag(x) == x # 0

\* User.from_api_response: the fields present in the response, parsed.
\* A response without a last_seen key gives a User without that field.
from_api_response(src) ==
    [uid |-> src.uid, online |-> parse_online_flag(src.online), last_seen |-> src.last_seen]

is_online(user) == user.online

has_last_seen(user) == user.last_seen # NoLastSeen

\* ------------------------------------------------------- track_status.py
Line(text, user) == [text |-> text, uid |-> user.uid]

Outcome(sink, lines, exc) == [sink |-> sink, lines |-> lines, exc |-> exc]

\* logging.info(format_user_is_online(user))
user_is_online(user) == Outcome("user_is_online", <<Line("is ONLINE", user)>>, "none")

\* Two lines; the second reads user.get_last_seen(), a KeyError when the field is absent.
user_is_offline(user) ==
    IF has_last_seen(user)
    THEN Outcome("user_is_offline",
                 <<Line("is OFFLINE", user), Line("was last seen at", user)>>, "none")
    ELSE Outcome("user_is_offline", <<Line("is OFFLINE", user)>>, "KeyError")

user_went_online(user) == Outcome("user_went_online", <<Line("went ONLINE", user)>>, "none")

\* Line 44 calls format_usre_went_offline, a name that is not defined: NameError.
user_went_offline(user) == Outcome("user_went_offline", <<>>, "NameError")

print_status(user) ==
    IF is_online(user) THEN user_is_online(user) ELSE user_is_offline(user)

\* A variant of print_status_update with its two branches exchanged.
print_status_update_inverted(user) ==
    IF is_online(user) THEN user_went_offline(user) ELSE user_went_online(user)

print_status_update(user) ==
    IF is_online(user) THEN user_went_online(user) ELSE user_went_offline(user)

\* A variant of flags_differ that sees a user go offline only.
flags_differ_offline_only(old, new) == is_online(old) /\ ~is_online(new)

\* The condition of line 76.
flags_differ(old, new) == is_online(old) # is_online(new)

\* A -t argument: an optional sign and one digit.  int(source).
int_of(source) == IF source.neg THEN 0 - source.digit ELSE source.digit

\* A variant of parse_timeout that rejects negative values only.
parse_timeout_nonnegative(source) ==
    LET t == int_of(source)
    IN  IF t < 0 THEN [ok |-> FALSE, value |-> t] ELSE [ok |-> TRUE, value |-> t]

\* parse_timeout: [ok, value]; not ok is argparse.ArgumentTypeError.
parse_timeout(source) ==
    LET t == int_of(source)
    IN  IF t < 1 THEN [ok |-> FALSE, value |-> t] ELSE [ok |-> TRUE, value |-> t]

\* A variant of lines 101-107 without the KeyboardInterrupt clause.
exit_status_of_uncaught(exc) == 1

\* A variant of lines 101-107 that passes over every exception.
exit_status_of_swallowed(exc) == 0

\* __main__, lines 101-107: KeyboardInterrupt is passed over, any other
\* exception is logged and ends the process with sys.exit(1).
exit_status_of(exc) == IF exc = "KeyboardInterrupt" THEN 0 ELSE 1

\* ------------------------------------------------------ the snapshot source
TimeoutArgs == [neg : BOOLEAN, digit : 0..MaxTimeoutDigit]

UserIdArgs == {[j \in 1..n |-> j] : n \in 1..MaxUsers}

SeqsOver(S, n) == [1..n -> S]

Range(s) == {s[j] : j \in DOMAIN s}

Injective(s) == \A a, b \in DOMAIN s : s[a] = s[b] => a = b

\* The uid sequences the source may answer with.
UidOrders(m, ids) ==
    IF m = "aligned"
    THEN {ids}
    ELSE {s \in UNION {SeqsOver(1..(Len(ids) + 1), n) : n \in 0..(Len(ids) + 1)} :
            Injective(s)}

LastSeenValues(m) == IF m = "aligned" THEN 0..MaxLastSeen ELSE {MaxLastSeen}

\* api.users_get(user_ids, fields): the sequences of User it may return.
Responses(m, ids) ==
    UNION {
        {[j \in 1..Len(o) |->
            from_api_response([uid |-> o[j], online |-> f[j], last_seen |-> l[j]])] :
          f \in SeqsOver({0, 1}, Len(o)), l \in SeqsOver(LastSeenValues(m), Len(o))}
        : o \in UidOrders(m, ids)}

\* ------------------------------------------------------------ live tracker
Running == pc \in {"users_get", "print_status", "sleep", "compare"}

\* The exception exc leaves loop_update_status and reaches lines 103-107.
Terminate(exc) ==
    /\ pc' = "exited"
    /\ raised' = exc
    /\ exit_status' = exit_status_of(exc)

\* Where the run goes after the body of a for loop over list: on to the next
\* element, or past the loop into time.sleep (line 73).
AfterBody(list) ==
    /\ i' = i + 1
    /\ pc' = IF i >= Len(list) THEN "sleep" ELSE pc

\* Lines 84-92: the command line.  A rejected -t ends the process in argparse
\* (exit status 2) before the tracker starts.
ParseArgs ==
    /\ pc = "parse_args"
    /\ \E ids \in UserIdArgs, given \in BOOLEAN, source \in TimeoutArgs :
        LET parsed == IF given THEN parse_timeout(source)
                               ELSE [ok |-> TRUE, value |-> DEFAULT_TIMEOUT]
        IN  /\ user_ids' = ids
            /\ IF parsed.ok
               THEN /\ timeout' = parsed.value
                    /\ pc' = "users_get"
                    /\ cycle' = 1
                    /\ UNCHANGED <<raised, exit_status>>
               ELSE /\ pc' = "exited"
                    /\ raised' = "ArgumentTypeError"
                    /\ exit_status' = 2
                    /\ UNCHANGED <<timeout, cycle>>
    /\ UNCHANGED <<mode, users, updated_users, i, acquired, sleeps, clock, log, verdicts>>
    /\ UNCHANGED batchVars

\* Line 69: the first api.users_get returns.
FirstAcquire ==
    /\ pc = "users_get"
    /\ cycle = 1
    /\ \E response \in Responses(mode, user_ids) :
        /\ users' = response
        /\ pc' = IF Len(response) = 0 THEN "sleep" ELSE "print_status"
    /\ i' = 1
    /\ acquired' = acquired + 1
    /\ UNCHANGED <<mode, user_ids, timeout, updated_users, cycle, sleeps, clock, log,
                   verdicts, raised, exit_status>>
    /\ UNCHANGED batchVars

\* Lines 70-71: one turn of the loop that reports the initial state.
PrintStatus ==
    /\ pc = "print_status"
    /\ LET out == print_status(users[i])
       IN  /\ log' = log \o out.lines
           /\ IF out.exc = "none"
              THEN AfterBody(users) /\ UNCHANGED <<raised, exit_status>>
              ELSE Terminate(out.exc) /\ UNCHANGED i
    /\ UNCHANGED <<mode, user_ids, timeout, users, updated_users, cycle, acquired, sleeps,
                   clock, verdicts>>
    /\ UNCHANGED batchVars

\* Line 73: time.sleep(timeout) returns; the next api.users_get is called.
Sleep ==
    /\ pc = "sleep"
    /\ cycle < MaxCycles
    /\ sleeps' = sleeps + 1
    /\ clock' = clock + timeout
    /\ cycle' = cycle + 1
    /\ pc' = "users_get"
    /\ log' = <<>>
    /\ verdicts' = <<>>
    /\ UNCHANGED <<mode, user_ids, timeout, users, updated_users, i, acquired, raised,
                   exit_status>>
    /\ UNCHANGED batchVars

\* Line 74: a later api.users_get returns.
Acquire ==
    /\ pc = "users_get"
    /\ cycle > 1
    /\ \E response \in Responses(mode, user_ids) :
        /\ updated_users' = response
        /\ pc' = IF Len(response) = 0 THEN "sleep" ELSE "compare"
    /\ i' = 1
    /\ acquired' = acquired + 1
    /\ UNCHANGED <<mode, user_ids, timeout, users, cycle, sleeps, clock, log, verdicts,
                   raised, exit_status>>
    /\ UNCHANGED batchVars

\* What line 76 compared and what lines 77-78 then did.
Verdict(old, new, sink) ==
    [prev_uid |-> old.uid, uid |-> new.uid,
     prev_online |-> old.online, online |-> new.online,
     prev_last_seen |-> old.last_seen, last_seen |-> new.last_seen,
     sink |-> sink]

\* Lines 75-78: one turn of the loop over range(len(updated_users)).
\* users[i] beyond the end of users is an IndexError.
Compare ==
    /\ pc = "compare"
    /\ IF i > Len(users)
       THEN /\ Terminate("IndexError")
            /\ UNCHANGED <<users, i, log, verdicts>>
       ELSE IF flags_differ(users[i], updated_users[i])
       THEN LET out == print_status_update(updated_users[i])
            IN  /\ users' = [users EXCEPT ![i] = updated_users[i]]
                /\ log' = log \o out.lines
                /\ verdicts' = Append(verdicts, Verdict(users[i], updated_users[i], out.sink))
                /\ IF out.exc = "none"
                   THEN AfterBody(updated_users) /\ UNCHANGED <<raised, exit_status>>
                   ELSE Terminate(out.exc) /\ UNCHANGED i
       ELSE /\ verdicts' = Append(verdicts, Verdict(users[i], updated_users[i], "none"))
            /\ AfterBody(updated_users)
            /\ UNCHANGED <<users, log, raised, exit_status>>
    /\ UNCHANGED <<mode, user_ids, timeout, updated_users, cycle, acquired, sleeps, clock>>
    /\ UNCHANGED batchVars

\* api.users_get raises: the transport failed or the response was malformed.
AcquireFails ==
    /\ pc = "users_get"
    /\ Terminate("APIError")
    /\ UNCHANGED <<mode, user_ids, timeout, users, updated_users, i, cycle, acquired, sleeps,
                   clock, log, verdicts>>
    /\ UNCHANGED batchVars

\* The user interrupts the run (KeyboardInterrupt) anywhere inside loop_update_status.
Interrupt ==
    /\ Running
    /\ Terminate("KeyboardInterrupt")
    /\ UNCHANGED <<mode, user_ids, timeout, users, updated_users, i, cycle, acquired, sleeps,
                   clock, log, verdicts>>
    /\ UNCHANGED batchVars

InitLive(m) ==
    /\ pc = "parse_args"
    /\ mode = m
    /\ user_ids = <<>>
    /\ timeout = DEFAULT_TIMEOUT
    /\ users = <<>>
    /\ updated_users = <<>>
    /\ i = 1
    /\ cycle = 0
    /\ acquired = 0
    /\ sleeps = 0
    /\ clock = 0
    /\ log = <<>>
    /\ verdicts = <<>>
    /\ raised = "none"
    /\ exit_status = -1

BatchIdle ==
    /\ bpc = "idle"
    /\ fmt = "csv"
    /\ db_ok = TRUE
    /\ by_user = <<>>
    /\ k = 1
    /\ fd = <<>>
    /\ array = <<>>
    /\ calls = 0
    /\ braised = "none"
    /\ bexit = -1

Init == InitLive("aligned") /\ BatchIdle

InitAnyOrder == InitLive("any") /\ BatchIdle

Next ==
    \/ ParseArgs
    \/ FirstAcquire
    \/ PrintStatus
    \/ Sleep
    \/ Acquire
    \/ Compare
    \/ AcquireFails
    \/ Interrupt

Spec == Init /\ [][Next]_vars

SpecAnyOrder == InitAnyOrder /\ [][Next]_vars

\* ------------------------------------------------- online_streak_duration.py
\* _USER_FIELDS
USER_FIELDS == <<"uid", "first_name", "last_name", "screen_name">>

\* A User of the recorded log: a mapping from the fields it has to their values.
\* The uid is always there (group_by_user keys its result by it).
BatchUser(uid, missing) ==
    [f \in (Range(USER_FIELDS) \ {missing}) |-> IF f = "uid" THEN uid ELSE <<f, uid>>]

\* Online durations, in seconds.
Durations == {0, 59, 3661}

\* str(timedelta(seconds=d)) for d under a day: H:MM:SS.
str_duration(d) == <<d \div 3600, (d % 3600) \div 60, d % 60>>

\* user[field] for every field of _USER_FIELDS: a KeyError when one is absent.
has_user_fields(user) == \A j \in DOMAIN USER_FIELDS : USER_FIELDS[j] \in DOMAIN user

\* OutputWriterCSV._user_duration_to_row
user_duration_to_row(user, duration) ==
    [j \in DOMAIN USER_FIELDS |-> user[USER_FIELDS[j]]] \o <<str_duration(duration)>>

\* OutputWriterJSON._user_duration_to_object: an ordered mapping, as (key, value) pairs.
user_duration_to_object(user, duration) ==
    [j \in DOMAIN USER_FIELDS |-> <<USER_FIELDS[j], user[USER_FIELDS[j]]>>]
        \o << <<"duration", str_duration(duration)>> >>

\* OutputWriterCSV.add_user_duration: the file after the call.
csv_add_user_duration(file, user, duration) ==
    Append(file, user_duration_to_row(user, duration))

\* A variant of OutputWriterJSON.add_user_duration that puts the record first.
json_add_user_duration_prepend(arr, user, duration) ==
    <<user_duration_to_object(user, duration)>> \o arr

\* OutputWriterJSON.add_user_duration: _array after the call.
json_add_user_duration(arr, user, duration) ==
    Append(arr, user_duration_to_object(user, duration))

\* json.dumps(self._array, indent=3): one text holding the array.
json_dumps(arr) == [json |-> arr]

\* __exit__(self, *args) of the writer of format f: the file after it.
\* It runs whether or not the scope is left by an exception.
writer_exit(f, file, arr) ==
    IF f = "json" THEN Append(file, json_dumps(arr)) ELSE file

\* The results group_by_user may give: users in first-seen order, each with a duration.
BatchInputs ==
    UNION {
        {[j \in 1..Len(o) |-> [user |-> BatchUser(o[j], m[j]), duration |-> d[j]]] :
          m \in SeqsOver({"none", "first_name", "last_name", "screen_name"}, Len(o)),
          d \in SeqsOver(Durations, Len(o))}
        : o \in {s \in UNION {SeqsOver(1..MaxBatchUsers, n) : n \in 0..MaxBatchUsers} :
                  Injective(s)}}

\* Lines 274-277: the arguments are parsed (args.output is opened for writing,
\* empty), the reader and the writer scopes are entered.
BatchStart ==
    /\ bpc = "idle"
    /\ \E f \in {"csv", "json"}, ok \in BOOLEAN, items \in BatchInputs :
        /\ ok \/ items = <<>>
        /\ fmt' = f
        /\ db_ok' = ok
        /\ by_user' = items
    /\ bpc' = "group_by_user"
    /\ UNCHANGED <<k, fd, array, calls, braised, bexit>>
    /\ UNCHANGED liveVars

\* Line 20: group_by_user reads the whole log, or fails on a record.
GroupByUser ==
    /\ bpc = "group_by_user"
    /\ IF db_ok
       THEN /\ bpc' = IF Len(by_user) = 0 THEN "exit_writer" ELSE "add"
            /\ UNCHANGED braised
       ELSE /\ bpc' = "exit_writer"
            /\ braised' = "LogFormatError"
    /\ UNCHANGED <<fmt, db_ok, by_user, k, fd, array, calls, bexit>>
    /\ UNCHANGED liveVars

\* Lines 21-22: one writer.add_user_duration(user, duration).
AddUserDuration ==
    /\ bpc = "add"
    /\ LET item == by_user[k]
       IN  IF has_user_fields(item.user)
           THEN /\ IF fmt = "csv"
                   THEN /\ fd' = csv_add_user_duration(fd, item.user, item.duration)
                        /\ UNCHANGED array
                   ELSE /\ array' = json_add_user_duration(array, item.user, item.duration)
                        /\ UNCHANGED fd
                /\ calls' = calls + 1
                /\ k' = k + 1
                /\ bpc' = IF k >= Len(by_user) THEN "exit_writer" ELSE "add"
                /\ UNCHANGED braised
           ELSE /\ braised' = "KeyError"
                /\ bpc' = "exit_writer"
                /\ UNCHANGED <<fd, array, calls, k>>
    /\ UNCHANGED <<fmt, db_ok, by_user, bexit>>
    /\ UNCHANGED liveVars

\* The with statement of line 277 is left: the writer's __exit__ runs, then an
\* exception on its way out ends the process with a traceback (exit status 1).
ExitWriter ==
    /\ bpc = "exit_writer"
    /\ fd' = writer_exit(fmt, fd, array)
    /\ bpc' = "done"
    /\ bexit' = IF braised = "none" THEN 0 ELSE 1
    /\ UNCHANGED <<fmt, db_ok, by_user, k, array, calls, braised>>
    /\ UNCHANGED liveVars

InitBatch ==
    /\ BatchIdle
    /\ InitLive("aligned")

NextBatch ==
    \/ BatchStart
    \/ GroupByUser
    \/ AddUserDuration
    \/ ExitWriter

SpecBatch == InitBatch /\ [][NextBatch]_vars

\* ------------------------------------------------------------------ claims
\* The lines of the current cycle's log that are exactly l.
LinesEqual(l) == {n \in DOMAIN log : log[n] = l}

\* The lines of the current cycle's log about the user uid.
LinesAbout(uid) == {n \in DOMAIN log : log[n].uid = uid}

\* The Transition Detector of the specification (section 4.1).
Reference(previous, current) ==
    CASE ~previous /\ current -> "WentOnline"
      [] previous /\ ~current -> "WentOffline"
      [] OTHER -> "NoChange"

\* The transition kind a sink of track_status.py stands for.
KindOfSink(sink) ==
    CASE sink = "user_went_online" -> "WentOnline"
      [] sink = "user_went_offline" -> "WentOffline"
      [] OTHER -> "NoChange"

\* C1: in every cycle after the first, each user whose online flag differs from
\* the stored one is reported exactly once, as 'went ONLINE' or 'went OFFLINE'
\* according to the new flag, and the run goes on.
C1_EveryChangeNotified ==
    \A j \in DOMAIN verdicts :
        LET v == verdicts[j]
            text == IF v.online THEN "went ONLINE" ELSE "went OFFLINE"
        IN  v.prev_online # v.online =>
                /\ Cardinality(LinesEqual([text |-> text, uid |-> v.uid])) = 1
                /\ raised \in {"none", "KeyboardInterrupt"}

\* C2: once the first acquisition has been reported (and the run was not
\* interrupted), every tracked user has exactly one Initial line, by its flag,
\* and no sleep has happened yet; a later cycle in which no flag differs from
\* the stored one logs nothing.
C2_InitialOnceThenSilent ==
    /\ (cycle = 1 /\ acquired = 1 /\ pc # "print_status" /\ raised # "KeyboardInterrupt") =>
          \A j \in DOMAIN users :
              LET text == IF users[j].online THEN "is ONLINE" ELSE "is OFFLINE"
              IN  /\ Cardinality(LinesEqual([text |-> text, uid |-> users[j].uid])) = 1
                  /\ \A n \in LinesAbout(users[j].uid) :
                        log[n].text \in {text, "was last seen at"}
    /\ cycle = 1 => sleeps = 0
    /\ (cycle > 1 /\ \A j \in DOMAIN verdicts : verdicts[j].prev_online = verdicts[j].online) =>
          log = <<>>

\* C3: a KeyboardInterrupt ends the run with exit status 0, and every line of
\* the log belongs to a cycle whose acquisition has completed.
C3_InterruptIsCleanShutdown ==
    /\ raised = "KeyboardInterrupt" => (pc = "exited" /\ exit_status = 0)
    /\ log # <<>> => acquired = cycle
    /\ verdicts # <<>> => acquired = cycle

\* C3 witness: the run was interrupted while a later acquisition was in flight.
C3_Witness ==
    /\ raised = "KeyboardInterrupt"
    /\ cycle > 1
    /\ acquired = cycle - 1
    /\ sleeps = cycle - 1

\* C4: a failure of the snapshot source ends the run at once (the call is not
\* made again), with a non-zero exit status and nothing logged for that cycle;
\* exit status 0 comes only from an interrupt.
C4_SourceFailureIsFatal ==
    /\ raised = "APIError" =>
          /\ pc = "exited"
          /\ exit_status > 0
          /\ acquired = cycle - 1
          /\ log = <<>>
          /\ verdicts = <<>>
    /\ exit_status = 0 => raised = "KeyboardInterrupt"
    /\ pc = "exited" <=> exit_status # -1

\* C4 witness: the source failed in an acquisition after the first.
C4_Witness == raised = "APIError" /\ cycle > 1 /\ users # <<>>

\* C5: no transition is reported from a pair of snapshots of different users.
C5_TransitionsFromSameUser ==
    \A j \in DOMAIN verdicts :
        verdicts[j].sink # "none" => verdicts[j].prev_uid = verdicts[j].uid

\* C8: a user has no stored state before the first acquisition and one from
\* then on; after every completed later cycle the stored flag of each user is
\* the flag fetched in that cycle; a user whose flag did not change keeps its
\* stored snapshot and gets no line.
C8_StoredStateTracksSnapshots ==
    /\ acquired = 0 => users = <<>>
    /\ acquired >= 1 =>
          /\ Len(users) = Len(user_ids)
          /\ \A j \in DOMAIN users :
                users[j].uid = user_ids[j] /\ users[j].online \in BOOLEAN
    /\ (pc = "sleep" /\ cycle >= 2) =>
          \A j \in DOMAIN user_ids :
              /\ updated_users[j].uid = user_ids[j]
              /\ users[j].online = updated_users[j].online
    /\ \A j \in DOMAIN verdicts :
          LET v == verdicts[j]
          IN  v.prev_online = v.online =>
                  /\ users[j] = [uid |-> v.prev_uid, online |-> v.prev_online,
                                 last_seen |-> v.prev_last_seen]
                  /\ LinesAbout(v.uid) = {}

\* C8 witness: a later cycle has completed in which one user went online and
\* another did not change while its last_seen did.
C8_Witness ==
    /\ pc = "sleep"
    /\ cycle >= 2
    /\ \E a, b \in DOMAIN verdicts :
        /\ verdicts[a].sink = "user_went_online"
        /\ verdicts[b].sink = "none"
        /\ verdicts[b].prev_last_seen # verdicts[b].last_seen

\* C9: the sink the loop chooses for a compared pair is the Transition
\* Detector's verdict on the two online flags, whatever the other fields hold.
C9_ClassificationMatchesDetector ==
    \A j \in DOMAIN verdicts :
        KindOfSink(verdicts[j].sink) = Reference(verdicts[j].prev_online, verdicts[j].online)

\* C9 witness: one cycle classified a user as gone online and another as gone
\* offline, with last_seen fields that differ from the stored ones.
C9_Witness ==
    \E a, b \in DOMAIN verdicts :
        /\ verdicts[a].sink = "user_went_online"
        /\ verdicts[a].prev_last_seen # verdicts[a].last_seen
        /\ verdicts[b].sink = "user_went_offline"
        /\ verdicts[b].prev_last_seen # verdicts[b].last_seen

\* C10: the poll interval is a whole number of seconds, at least 1 (5 when -t
\* is not given; a value below 1 is rejected before any acquisition); every
\* acquisition after the first follows exactly one sleep of that interval; a
\* sleep begins only when the loop over the users is over and, in the first
\* cycle, every user has its Initial line.
C10_SleepBetweenAcquisitions ==
    /\ timeout \in Nat /\ timeout >= 1
    /\ timeout \in {DEFAULT_TIMEOUT} \cup (1..MaxTimeoutDigit)
    /\ raised = "ArgumentTypeError" => (cycle = 0 /\ exit_status = 2)
    /\ cycle >= 1 => cycle = sleeps + 1
    /\ clock = sleeps * timeout
    /\ acquired \in {cycle - 1, cycle} \cap Nat
    /\ pc = "sleep" =>
          /\ acquired = cycle
          /\ i = Len(IF cycle = 1 THEN users ELSE updated_users) + 1
          /\ cycle = 1 => \A j \in DOMAIN users : LinesAbout(users[j].uid) # {}
          /\ cycle > 1 => Len(verdicts) = Len(updated_users)

\* C10 witness: the third acquisition is in flight after two sleeps of a
\* poll interval given on the command line.
C10_Witness ==
    /\ pc = "users_get"
    /\ cycle = 3
    /\ sleeps = 2
    /\ timeout = 1
    /\ clock = 2

\* The record the writers are to emit for an item: the four identity fields in
\* order, then the duration as H:MM:SS.
IsRecordOf(values, item) ==
    /\ Len(values) = 5
    /\ values[1] = item.user["uid"]
    /\ values[2] = item.user["first_name"]
    /\ values[3] = item.user["last_name"]
    /\ values[4] = item.user["screen_name"]
    /\ Len(values[5]) = 3
    /\ values[5][1] * 3600 + values[5][2] * 60 + values[5][3] = item.duration
    /\ values[5][2] \in 0..59
    /\ values[5][3] \in 0..59

\* The values of a JSON object, when its keys are the expected ones.
ObjectValues(object) == [j \in DOMAIN object |-> object[j][2]]

ObjectKeys(object) == [j \in DOMAIN object |-> object[j][1]]

\* C6: a run that ends with an error leaves nothing in the output.
C6_NoPartialOutput == (bpc = "done" /\ braised # "none") => fd = <<>>

\* C7: the records emitted are one per add_user_duration call that returned,
\* in call order, each with the user's identity fields and then the duration
\* as a string; the JSON writer writes once, on close, all records added.
C7_OneRecordPerCall ==
    /\ calls = k - 1
    /\ fmt = "csv" =>
          /\ Len(fd) = calls
          /\ \A j \in DOMAIN fd : IsRecordOf(fd[j], by_user[j])
    /\ fmt = "json" =>
          /\ Len(array) = calls
          /\ \A j \in DOMAIN array :
                /\ ObjectKeys(array[j]) = USER_FIELDS \o <<"duration">>
                /\ IsRecordOf(ObjectValues(array[j]), by_user[j])
          /\ bpc # "done" => fd = <<>>
          /\ bpc = "done" => fd = <<[json |-> array]>>

\* C7 witness: a JSON run of two users has been closed.
C7_Witness ==
    /\ bpc = "done"
    /\ fmt = "json"
    /\ calls = 2
    /\ by_user[1].user["uid"] = 2
    /\ by_user[1].duration = 3661
    /\ braised = "none"

====
